---- MODULE Spec2Model ----
(***************************************************************************)
(* Model of src/main.py: the head-tracked viewer script.  The main thread  *)
(* runs setup, the calibration wait and the main loop; a daemon thread     *)
(* (read_output) appends every sensor line to the one-element deque q.     *)
(* Floating-point values are modelled as exact rationals <<num, den>> in   *)
(* lowest terms with den > 0; time.time() is the integer clock `now`,      *)
(* counted in ticks of 1/TicksPerUnit time-units.                          *)
(***************************************************************************)
EXTENDS Integers, Sequences, FiniteSets, TLC

\* ---------------------------------------------------------------- bounds
MaxFrames == 3          \* frames the capture stream delivers before it blocks
MaxIdle == 3            \* the clock is not followed further than this many ticks past last_update_time
TicksPerUnit == 10      \* clock resolution: ticks per time-unit

\* ------------------------------------------------------ program constants
SCREEN_WIDTH == 1920
SCREEN_HEIGHT == 1080
NUM_INPUT_SCREENS == 2
YAW_THRESHOLD == 5
Q_MAXLEN == 1
CALIBRATION_TIMEOUT == 10
CAPTURE_SLEEP == 2

\* ------------------------------------------------------ exact arithmetic
Abs(n) == IF n < 0 THEN -n ELSE n

RECURSIVE GCD(_, _)
GCD(a, b) == IF b = 0 THEN a ELSE GCD(b, a % b)

\* the rational n/d (d # 0) in lowest terms with a positive denominator
Rat(n, d) ==
    LET g == GCD(Abs(n), Abs(d))
        s == IF d < 0 THEN -1 ELSE 1
    IN  <<(s * n) \div g, (s * d) \div g>>

RatAdd(x, y) == Rat(x[1] * y[2] + y[1] * x[2], x[2] * y[2])
RatSub(x, y) == Rat(x[1] * y[2] - y[1] * x[2], x[2] * y[2])
RatMul(x, y) == Rat(x[1] * y[1], x[2] * y[2])
RatAbs(x) == <<Abs(x[1]), x[2]>>
RatLess(x, y) == x[1] * y[2] < y[1] * x[2]

SMOOTHING_FACTOR == Rat(2, 10)
SWITCH_DELAY == Rat(3, 10)

\* ------------------------------------------------------- sensor lines
\* A line is a sequence of one-character strings, as readline() returns it.
None == <<>>

Digits == <<"0", "1", "2", "3", "4", "5", "6", "7", "8", "9">>
IsDigit(c) == \E i \in 1..10 : Digits[i] = c
DigitVal(c) == (CHOOSE i \in 1..10 : Digits[i] = c) - 1
IsSpace(c) == c \in {" ", "\t", "\n", "\r"}

\* first index >= i of s that does not hold a whitespace character (\s*)
RECURSIVE SkipSpaces(_, _)
SkipSpaces(s, i) ==
    IF i <= Len(s) /\ IsSpace(s[i]) THEN SkipSpaces(s, i + 1) ELSE i

\* first index >= i of s that does not hold a digit (\d+, greedy)
RECURSIVE SkipDigits(_, _)
SkipDigits(s, i) ==
    IF i <= Len(s) /\ IsDigit(s[i]) THEN SkipDigits(s, i + 1) ELSE i

\* the pattern Yaw:\s*(-?\d+\.\d+) anchored at index i: <<first, last>> of
\* group 1, or None
MatchAt(s, i) ==
    IF i + 3 <= Len(s) /\ s[i] = "Y" /\ s[i + 1] = "a" /\ s[i + 2] = "w" /\ s[i + 3] = ":"
    THEN LET j == SkipSpaces(s, i + 4)
             k == IF j <= Len(s) /\ s[j] = "-" THEN j + 1 ELSE j
             m == SkipDigits(s, k)
             n == SkipDigits(s, m + 1)
         IN  IF m > k /\ m <= Len(s) /\ s[m] = "." /\ n > m + 1
             THEN <<j, n - 1>>
             ELSE None
    ELSE None

\* re.search: the leftmost index at which the pattern matches
RECURSIVE Search(_, _)
Search(s, i) ==
    IF i > Len(s) THEN None
    ELSE IF MatchAt(s, i) # None THEN MatchAt(s, i)
    ELSE Search(s, i + 1)

\* value of a run of digits read as a decimal number
RECURSIVE DigitsValue(_)
DigitsValue(d) ==
    IF d = <<>> THEN 0
    ELSE 10 * DigitsValue(SubSeq(d, 1, Len(d) - 1)) + DigitVal(d[Len(d)])

RECURSIVE Pow10(_)
Pow10(n) == IF n = 0 THEN 1 ELSE 10 * Pow10(n - 1)

\* float() of a string of the form -?\d+\.\d+
ToFloat(g) ==
    LET neg == g[1] = "-"
        body == IF neg THEN Tail(g) ELSE g
        dot == CHOOSE i \in 1..Len(body) : body[i] = "."
        fracLen == Len(body) - dot
        mant == DigitsValue(SubSeq(body, 1, dot - 1) \o SubSeq(body, dot + 1, Len(body)))
    IN  Rat(IF neg THEN -mant ELSE mant, Pow10(fracLen))

get_pitch_roll_yaw(input_str) ==
    LET match == Search(input_str, 1)
    IN  IF match # None
        THEN ToFloat(SubSeq(input_str, match[1], match[2]))
        ELSE None

\* "".join(q)
RECURSIVE Join(_)
Join(d) == IF d = <<>> THEN <<>> ELSE Head(d) \o Join(Tail(d))

\* variant: the deque was created without maxlen, nothing is ever dropped
DequeAppend_unbounded(d, x) == Append(d, x)

\* deque.append on a deque with maxlen: a full deque drops its leftmost item
DequeAppend(d, x) ==
    IF Len(d) >= Q_MAXLEN THEN Append(Tail(d), x) ELSE Append(d, x)

\* lines the sensor process may print
LineYaw25 == <<"Y", "a", "w", ":", " ", "2", "5", ".", "0", "\n">>
LineYaw249 == <<"Y", "a", "w", ":", " ", "2", "4", ".", "9", "\n">>
LineYawNeg == <<"R", ":", "1", ".", "0", " ", "Y", "a", "w", ":", "-", "6", "0", ".", "5", "\n">>
LineNoise == <<"n", "o", "i", "s", "e", "\n">>
Lines == {LineYaw25, LineYaw249, LineYawNeg, LineNoise}

\* ------------------------------------------------------------- frames
FrameBytes == SCREEN_WIDTH * NUM_INPUT_SCREENS * SCREEN_HEIGHT * 3

\* byte counts one fifo.read() may return: a full frame, or one byte short
ReadLengths == {FrameBytes, FrameBytes - 1}

NoFrame == [id |-> 0, shape |-> <<>>]

\* np.array(Image.frombytes("RGB", (w, h), raw)): rows x columns x channels
DecodeFrame(id, w, h) == [id |-> id, shape |-> <<h, w, 3>>]

\* pygame.surfarray.make_surface(array): the surface's size is the array's
\* first two axes; its content is the whole array
make_surface(array) ==
    [frame |-> array.id, size |-> <<array.shape[1], array.shape[2]>>]

\* -------------------------------------------------------------- state
VARIABLES
    pc,                \* position of the main thread
    exit_status,       \* process exit status, -1 while running
    exit_cause,        \* how the process came to end, "" while running
    teardown_run,      \* remove_virtual_screens has been called by atexit
    capture_running,   \* the wf-recorder process is alive
    imu_running,       \* the sensor driver process is alive
    reader_started,    \* thread t has been started
    q,                 \* the deque shared by the reader and the main thread
    stdout_line,       \* the line the reader thread appended last
    now,               \* the clock, in ticks
    start_time,
    previous_yaw,
    last_update_time,
    raw_image,         \* number of bytes the last fifo.read() returned
    frame,
    yaw,
    presented,         \* surfaces shown by pygame.display.update(), in order
    frames_read,       \* frames taken from the capture stream so far
    quit_pending       \* a QUIT event waits in the pygame event queue

vars == <<pc, exit_status, exit_cause, teardown_run, capture_running,
          imu_running, reader_started, q, stdout_line, now, start_time,
          previous_yaw, last_update_time, raw_image, frame, yaw, presented,
          frames_read, quit_pending>>

procVars == <<exit_status, exit_cause, teardown_run, capture_running, imu_running, reader_started>>
filterVars == <<previous_yaw, last_update_time>>
calibVars == <<start_time>>
slotVars == <<q, stdout_line>>
frameVars == <<raw_image, frame>>

SetupPcs == {"add_screens", "start_capture", "start_imu", "start_thread"}
CalibPcs == {"calib_time", "calib_slot", "calib_read"}
LoopPcs == {"read_frame", "check_slot", "get_yaw", "debounce", "commit", "present", "poll"}

\* elapsed time-units between two clock readings
Elapsed(t1, t0) == Rat(t1 - t0, TicksPerUnit)

Init ==
    /\ pc = "add_screens"
    /\ exit_status = -1
    /\ exit_cause = ""
    /\ teardown_run = FALSE
    /\ capture_running = FALSE
    /\ imu_running = FALSE
    /\ reader_started = FALSE
    /\ q = <<>>
    /\ stdout_line = None
    /\ now = 0
    /\ start_time = 0
    /\ previous_yaw = Rat(0, 1)
    /\ last_update_time = 0
    /\ raw_image = 0
    /\ frame = NoFrame
    /\ yaw = None
    /\ presented = <<>>
    /\ frames_read = 0
    /\ quit_pending = FALSE

\* exit(code) or an uncaught exception: the interpreter starts to shut down
Exit(code, cause) ==
    /\ pc' = "exit"
    /\ exit_status' = code
    /\ exit_cause' = cause

\* ---------------------------------------------------------------- setup
\* add_virtual_screens(): exit(1) when the display tool is not installed
add_virtual_screens ==
    /\ pc = "add_screens"
    /\ \E tool_exists \in BOOLEAN :
          IF tool_exists
          THEN /\ pc' = "start_capture"
               /\ UNCHANGED <<exit_status, exit_cause>>
          ELSE Exit(1, "setup")
    /\ UNCHANGED <<teardown_run, capture_running, imu_running, reader_started, slotVars, now,
                   calibVars, filterVars, frameVars, yaw, presented, frames_read, quit_pending>>

\* start_screen_capture(): Popen, sleep(2), exit(1) when wf-recorder has ended
start_screen_capture ==
    /\ pc = "start_capture"
    /\ now' = now + CAPTURE_SLEEP * TicksPerUnit
    /\ \E alive \in BOOLEAN :
          IF alive
          THEN /\ capture_running' = TRUE
               /\ pc' = "start_imu"
               /\ UNCHANGED <<exit_status, exit_cause>>
          ELSE /\ capture_running' = FALSE
               /\ Exit(1, "setup")
    /\ UNCHANGED <<teardown_run, imu_running, reader_started, slotVars,
                   calibVars, filterVars, frameVars, yaw, presented, frames_read, quit_pending>>

\* variant: a missing or dead driver is only logged and setup goes on
start_imu_driver_continue ==
    /\ pc = "start_imu"
    /\ \E found \in BOOLEAN, alive \in BOOLEAN :
          /\ imu_running' = (found /\ alive)
          /\ pc' = "start_thread"
          /\ UNCHANGED <<exit_status, exit_cause>>
    /\ UNCHANGED <<teardown_run, capture_running, reader_started, slotVars, now,
                   calibVars, filterVars, frameVars, yaw, presented, frames_read, quit_pending>>

\* start_imu_driver(): find_nreal_driver() exits when no candidate path holds
\* an executable; exit(1) when the started driver has already ended
start_imu_driver ==
    /\ pc = "start_imu"
    /\ \E found \in BOOLEAN, alive \in BOOLEAN :
          IF found /\ alive
          THEN /\ imu_running' = TRUE
               /\ pc' = "start_thread"
               /\ UNCHANGED <<exit_status, exit_cause>>
          ELSE /\ imu_running' = FALSE
               /\ Exit(1, "setup")
    /\ UNCHANGED <<teardown_run, capture_running, reader_started, slotVars, now,
                   calibVars, filterVars, frameVars, yaw, presented, frames_read, quit_pending>>

\* t.start(), then start_time = time.time()
start_thread ==
    /\ pc = "start_thread"
    /\ reader_started' = TRUE
    /\ start_time' = now
    /\ pc' = "calib_time"
    /\ UNCHANGED <<exit_status, exit_cause, teardown_run, capture_running, imu_running, slotVars, now,
                   filterVars, frameVars, yaw, presented, frames_read, quit_pending>>

\* ------------------------------------------------------- reader thread
\* read_output: one readline() result is appended, whatever it contains
read_output ==
    /\ reader_started
    /\ imu_running
    /\ pc # "done"
    /\ \E line \in Lines :
          /\ stdout_line' = line
          /\ q' = DequeAppend(q, line)
    /\ UNCHANGED <<pc, procVars, now, calibVars, filterVars, frameVars, yaw, presented,
                   frames_read, quit_pending>>

\* ---------------------------------------------------- calibration wait
\* variant: the wait has no timeout
calib_time_no_timeout ==
    /\ pc = "calib_time"
    /\ pc' = "calib_slot"
    /\ UNCHANGED <<procVars, slotVars, now, calibVars, filterVars, frameVars, yaw, presented,
                   frames_read, quit_pending>>

\* while time.time() - start_time < 10:
calib_time ==
    /\ pc = "calib_time"
    /\ pc' = IF RatLess(Elapsed(now, start_time), Rat(CALIBRATION_TIMEOUT, 1))
             THEN "calib_slot" ELSE "read_frame"
    /\ UNCHANGED <<procVars, slotVars, now, calibVars, filterVars, frameVars, yaw, presented,
                   frames_read, quit_pending>>

\* if q:
calib_slot ==
    /\ pc = "calib_slot"
    /\ pc' = IF Len(q) > 0 THEN "calib_read" ELSE "calib_time"
    /\ UNCHANGED <<procVars, slotVars, now, calibVars, filterVars, frameVars, yaw, presented,
                   frames_read, quit_pending>>

\* initial_yaw_value = get_pitch_roll_yaw("".join(q)); break when not None
calib_read ==
    /\ pc = "calib_read"
    /\ LET initial_yaw_value == get_pitch_roll_yaw(Join(q))
       IN  pc' = IF initial_yaw_value # None THEN "read_frame" ELSE "calib_time"
    /\ UNCHANGED <<procVars, slotVars, now, calibVars, filterVars, frameVars, yaw, presented,
                   frames_read, quit_pending>>

\* ------------------------------------------------------------ main loop
\* variant: the two weights of the smoothing are swapped
Smooth_swapped(prev, raw) ==
    RatAdd(RatMul(prev, SMOOTHING_FACTOR), RatMul(raw, RatSub(Rat(1, 1), SMOOTHING_FACTOR)))

\* variant: no smoothing, the raw value is used as it is
Smooth_none(prev, raw) == raw

\* yaw = previous_yaw * (1 - SMOOTHING_FACTOR) + yaw * SMOOTHING_FACTOR
Smooth(prev, raw) ==
    RatAdd(RatMul(prev, RatSub(Rat(1, 1), SMOOTHING_FACTOR)), RatMul(raw, SMOOTHING_FACTOR))

\* variant: the two debounce tests joined by `and` instead of `or`
Rejected_and(smoothed, prev, t, last) ==
    /\ RatLess(RatAbs(RatSub(smoothed, prev)), Rat(YAW_THRESHOLD, 1))
    /\ RatLess(Elapsed(t, last), SWITCH_DELAY)

\* abs(yaw - previous_yaw) < YAW_THRESHOLD or time.time() - last_update_time < SWITCH_DELAY
Rejected(smoothed, prev, t, last) ==
    \/ RatLess(RatAbs(RatSub(smoothed, prev)), Rat(YAW_THRESHOLD, 1))
    \/ RatLess(Elapsed(t, last), SWITCH_DELAY)

\* variant: a frame that is already held is kept, the new bytes are dropped
read_frame_keep_old ==
    /\ pc = "read_frame"
    /\ capture_running
    /\ frames_read < MaxFrames
    /\ frames_read' = frames_read + 1
    /\ \E raw_len \in ReadLengths :
          /\ raw_image' = raw_len
          /\ IF raw_len = FrameBytes
             THEN /\ frame' = IF frame = NoFrame
                               THEN DecodeFrame(frames_read + 1, SCREEN_WIDTH * NUM_INPUT_SCREENS, SCREEN_HEIGHT)
                               ELSE frame
                  /\ pc' = "check_slot"
                  /\ UNCHANGED <<exit_status, exit_cause>>
             ELSE /\ frame' = frame
                  /\ Exit(1, "uncaught")
    /\ UNCHANGED <<teardown_run, capture_running, imu_running, reader_started, slotVars, now,
                   calibVars, filterVars, yaw, presented, quit_pending>>

\* with open(FIFO_PATH, "rb") as fifo: raw_image = fifo.read();
\* frame = np.array(Image.frombytes(...)): frombytes raises ValueError, outside
\* any try, when raw_image is not a whole frame
read_frame ==
    /\ pc = "read_frame"
    /\ capture_running
    /\ frames_read < MaxFrames
    /\ frames_read' = frames_read + 1
    /\ \E raw_len \in ReadLengths :
          /\ raw_image' = raw_len
          /\ IF raw_len = FrameBytes
             THEN /\ frame' = DecodeFrame(frames_read + 1, SCREEN_WIDTH * NUM_INPUT_SCREENS, SCREEN_HEIGHT)
                  /\ pc' = "check_slot"
                  /\ UNCHANGED <<exit_status, exit_cause>>
             ELSE /\ frame' = frame
                  /\ Exit(1, "uncaught")
    /\ UNCHANGED <<teardown_run, capture_running, imu_running, reader_started, slotVars, now,
                   calibVars, filterVars, yaw, presented, quit_pending>>

\* variant: the frame is shown although the deque is empty
check_slot_present_anyway ==
    /\ pc = "check_slot"
    /\ pc' = IF Len(q) > 0 THEN "get_yaw" ELSE "present"
    /\ UNCHANGED <<procVars, slotVars, now, calibVars, filterVars, frameVars, yaw, presented,
                   frames_read, quit_pending>>

\* if q:  (an empty deque ends the cycle)
check_slot ==
    /\ pc = "check_slot"
    /\ pc' = IF Len(q) > 0 THEN "get_yaw" ELSE "read_frame"
    /\ UNCHANGED <<procVars, slotVars, now, calibVars, filterVars, frameVars, yaw, presented,
                   frames_read, quit_pending>>

\* variant: the line is taken out of the deque when it is read (q.pop())
get_yaw_pop ==
    /\ pc = "get_yaw"
    /\ yaw' = get_pitch_roll_yaw(Join(q))
    /\ q' = <<>>
    /\ pc' = IF yaw' = None THEN "read_frame" ELSE "debounce"
    /\ UNCHANGED <<procVars, stdout_line, now, calibVars, filterVars, frameVars, presented,
                   frames_read, quit_pending>>

\* yaw = get_pitch_roll_yaw("".join(q)); if yaw is None: continue
get_yaw ==
    /\ pc = "get_yaw"
    /\ yaw' = get_pitch_roll_yaw(Join(q))
    /\ pc' = IF yaw' = None THEN "read_frame" ELSE "debounce"
    /\ UNCHANGED <<procVars, slotVars, now, calibVars, filterVars, frameVars, presented,
                   frames_read, quit_pending>>

\* variant: previous_yaw is overwritten with the smoothed value before the test
debounce_assign_first ==
    /\ pc = "debounce"
    /\ yaw' = Smooth(previous_yaw, yaw)
    /\ previous_yaw' = yaw'
    /\ pc' = IF Rejected(yaw', previous_yaw, now, last_update_time)
             THEN "read_frame" ELSE "commit"
    /\ UNCHANGED <<procVars, slotVars, now, calibVars, last_update_time, frameVars, presented,
                   frames_read, quit_pending>>

\* smoothing, then the debounce test: continue when the update is rejected
debounce ==
    /\ pc = "debounce"
    /\ yaw' = Smooth(previous_yaw, yaw)
    /\ pc' = IF Rejected(yaw', previous_yaw, now, last_update_time)
             THEN "read_frame" ELSE "commit"
    /\ UNCHANGED <<procVars, slotVars, now, calibVars, filterVars, frameVars, presented,
                   frames_read, quit_pending>>

\* previous_yaw = yaw; last_update_time = time.time()
commit ==
    /\ pc = "commit"
    /\ previous_yaw' = yaw
    /\ last_update_time' = now
    /\ pc' = "present"
    /\ UNCHANGED <<procVars, slotVars, now, calibVars, frameVars, yaw, presented,
                   frames_read, quit_pending>>

\* surface = make_surface(frame); screen.blit(surface, (0, 0)); display.update()
\* a pygame error raised here is caught by the except clause of the cycle
present ==
    /\ pc = "present"
    /\ \E raised \in BOOLEAN :
          IF raised
          THEN /\ pc' = "read_frame"
               /\ presented' = presented
          ELSE /\ pc' = "poll"
               /\ presented' = Append(presented, make_surface(frame))
    /\ UNCHANGED <<procVars, slotVars, now, calibVars, filterVars, frameVars, yaw,
                   frames_read, quit_pending>>

\* for event in pygame.event.get(): on QUIT, pygame.quit(), pkill wf-recorder, exit(0)
poll ==
    /\ pc = "poll"
    /\ quit_pending' = FALSE
    /\ IF quit_pending
       THEN /\ capture_running' = FALSE
            /\ Exit(0, "quit")
       ELSE /\ pc' = "read_frame"
            /\ UNCHANGED <<capture_running, exit_status, exit_cause>>
    /\ UNCHANGED <<teardown_run, imu_running, reader_started, slotVars, now, calibVars, filterVars,
                   frameVars, yaw, presented, frames_read>>

\* ------------------------------------------------------------ environment
\* the clock moves on while the main loop runs
Tick ==
    /\ pc \in LoopPcs
    /\ now - last_update_time < MaxIdle
    /\ now' = now + 1
    /\ UNCHANGED <<pc, procVars, slotVars, calibVars, filterVars, frameVars, yaw, presented,
                   frames_read, quit_pending>>

\* the clock moves on during the calibration wait, half the timeout at a time
CalibTick ==
    /\ pc \in CalibPcs
    /\ RatLess(Elapsed(now, start_time), Rat(CALIBRATION_TIMEOUT, 1))
    /\ now' = now + (CALIBRATION_TIMEOUT * TicksPerUnit) \div 2
    /\ UNCHANGED <<pc, procVars, slotVars, calibVars, filterVars, frameVars, yaw, presented,
                   frames_read, quit_pending>>

\* the user closes the window: a QUIT event is queued
request_quit ==
    /\ pc \notin {"exit", "done"}
    /\ ~quit_pending
    /\ quit_pending' = TRUE
    /\ UNCHANGED <<pc, procVars, slotVars, now, calibVars, filterVars, frameVars, yaw, presented,
                   frames_read>>

\* SIGINT: Python raises KeyboardInterrupt in the main thread; it is not an
\* Exception, so the except clause of the cycle lets it through
sigint ==
    /\ pc \notin {"exit", "done"}
    /\ Exit(1, "sigint")
    /\ UNCHANGED <<teardown_run, capture_running, imu_running, reader_started, slotVars, now,
                   calibVars, filterVars, frameVars, yaw, presented, frames_read, quit_pending>>

\* SIGTERM: no handler is installed, the process is killed at once and the
\* atexit functions are not called
sigterm ==
    /\ pc # "done"
    /\ pc' = "done"
    /\ exit_status' = 143
    /\ exit_cause' = "sigterm"
    /\ UNCHANGED <<teardown_run, capture_running, imu_running, reader_started, slotVars, now,
                   calibVars, filterVars, frameVars, yaw, presented, frames_read, quit_pending>>

\* interpreter shutdown: the function registered with atexit is called
remove_virtual_screens ==
    /\ pc = "exit"
    /\ teardown_run' = TRUE
    /\ pc' = "done"
    /\ UNCHANGED <<exit_status, exit_cause, capture_running, imu_running, reader_started, slotVars, now,
                   calibVars, filterVars, frameVars, yaw, presented, frames_read, quit_pending>>

Next ==
    \/ add_virtual_screens
    \/ start_screen_capture
    \/ start_imu_driver
    \/ start_thread
    \/ read_output
    \/ calib_time
    \/ calib_slot
    \/ calib_read
    \/ read_frame
    \/ check_slot
    \/ get_yaw
    \/ debounce
    \/ commit
    \/ present
    \/ poll
    \/ Tick
    \/ CalibTick
    \/ request_quit
    \/ sigint
    \/ sigterm
    \/ remove_virtual_screens

Spec == Init /\ [][Next]_vars

\* the program up to its first frame read: setup, the reader thread, the
\* calibration wait and the read that opens the main loop
CalibNext ==
    \/ add_virtual_screens
    \/ start_screen_capture
    \/ start_imu_driver
    \/ start_thread
    \/ read_output
    \/ calib_time
    \/ calib_slot
    \/ calib_read
    \/ read_frame
    \/ CalibTick
    \/ request_quit
    \/ sigint
    \/ sigterm
    \/ remove_virtual_screens

\* a step of the main thread inside the calibration wait: under CalibNext the
\* steps of this shape are exactly those of calib_time, calib_slot and
\* calib_read, one of which is enabled at each position of the wait
calib_thread_step ==
    /\ pc \in CalibPcs
    /\ pc' \in (CalibPcs \cup {"read_frame"}) \ {pc}
    /\ UNCHANGED <<procVars, slotVars, now, calibVars, filterVars, frameVars, yaw, presented,
                   frames_read, quit_pending>>

\* the main thread keeps running through the calibration wait and the clock
\* keeps moving during it
CalibSpec ==
    /\ Init
    /\ [][CalibNext]_vars
    /\ WF_vars(calib_thread_step)
    /\ WF_vars(CalibTick)

TypeOK ==
    /\ pc \in SetupPcs \cup CalibPcs \cup LoopPcs \cup {"exit", "done"}
    /\ Len(q) <= Q_MAXLEN
    /\ frames_read \in 0..MaxFrames

\* ------------------------------------------------------------ properties
\* a step of the main thread that stays inside the program (no signal, no exit)
MainStep == pc' # pc /\ pc' \notin {"exit", "done"}

\* |a - b| as a rational
Dist(a, b) == RatAbs(RatSub(a, b))

\* no surface made from the frame of the current cycle has been shown
NothingShownThisCycle(p) == \A i \in 1..Len(p) : p[i].frame # frames_read

\* C1: two accepted updates are never less than 0.3 time-units apart and an
\* accepted update moves previous_yaw by at least 5 degrees; at the debounce
\* test a smoothed difference below 5 is rejected and one of exactly 5 passes
\* once 0.3 time-units have gone by.
C1_AcceptedUpdatesSpaced ==
    [][ /\ (previous_yaw' # previous_yaw \/ last_update_time' # last_update_time \/ (pc = "commit" /\ MainStep))
           => /\ 10 * (last_update_time' - last_update_time) >= 3 * TicksPerUnit
              /\ ~RatLess(Dist(previous_yaw', previous_yaw), <<5, 1>>)
        /\ (pc = "debounce" /\ MainStep /\ RatLess(Dist(yaw', previous_yaw), <<5, 1>>))
           => pc' = "read_frame"
        /\ (pc = "debounce" /\ MainStep /\ Dist(yaw', previous_yaw) = <<5, 1>>
              /\ 10 * (now - last_update_time) >= 3 * TicksPerUnit)
           => pc' = "commit"
      ]_vars

\* C1 witness: a second update has been accepted after a first one whose
\* smoothed difference was exactly 5.0 (raw 25.0 from 0, then raw -60.5)
C1_Witness ==
    /\ pc = "present"
    /\ previous_yaw = <<-81, 10>>
    /\ last_update_time > start_time

\* C2: a cycle whose update the filter rejects leaves previous_yaw and
\* last_update_time alone and shows nothing, and its frame has been read.
C2_RejectedCycleIsNoOp ==
    [][ (/\ pc = "debounce"
         /\ MainStep
         /\ \/ RatLess(Dist(yaw', previous_yaw), <<5, 1>>)
            \/ 10 * (now - last_update_time) < 3 * TicksPerUnit)
        => /\ pc' = "read_frame"
           /\ previous_yaw' = previous_yaw
           /\ last_update_time' = last_update_time
           /\ presented' = presented
           /\ NothingShownThisCycle(presented)
           /\ frames_read >= 1
           /\ frame.id = frames_read
           /\ raw_image = FrameBytes
      ]_vars

\* C2 witness: a cycle has ended with a smoothed yaw 5 degrees or more away
\* from previous_yaw, turned down because too little time had gone by
C2_Witness ==
    /\ pc = "read_frame"
    /\ yaw # None
    /\ ~RatLess(Dist(yaw, previous_yaw), <<5, 1>>)
    /\ frame.id = frames_read
    /\ NothingShownThisCycle(presented)
    /\ Len(presented) >= 1

\* C3: once the slot holds a line with a parsable yaw, no later line without
\* one takes its place.
C3_NoiseLeavesSlot ==
    [][ (q # <<>> /\ get_pitch_roll_yaw(Join(q)) # None)
        => (q' # <<>> /\ get_pitch_roll_yaw(Join(q')) # None) ]_vars

\* C4: every cycle of the main loop reaches the poll for the QUIT event: a
\* cycle ends, and the next frame is read, only after the poll.
C4_PollInEveryCycle ==
    [][ (pc \in LoopPcs /\ pc # "read_frame" /\ pc' = "read_frame") => pc = "poll" ]_vars

\* C5: whenever the process has ended, remove_virtual_screens has been run.
C5_TeardownOnEveryExit == pc = "done" => teardown_run

\* C6: a read that is not a whole frame ends the cycle only: the main loop
\* goes on to the next read and nothing is shown.
C6_ShortReadSkipsCycle ==
    [][ (pc = "read_frame" /\ frames_read' # frames_read /\ raw_image' # FrameBytes)
        => (pc' = "read_frame" /\ presented' = presented) ]_vars

\* C7: an error raised inside a cycle is caught and the next cycle starts;
\* apart from signals, the main loop is left only through a QUIT event.
C7_LoopEndsOnlyByQuit ==
    [][ (pc \in LoopPcs /\ pc' \in {"exit", "done"})
        => exit_cause' \in {"quit", "sigint", "sigterm"} ]_vars

\* C8: a cycle that finds the slot empty, or a line without a yaw in it, shows
\* nothing and leaves previous_yaw and last_update_time alone; its frame has
\* been read and the loop goes on with the next read.
C8_NoSampleSkipsCycle ==
    [][ (/\ MainStep
         /\ \/ pc = "check_slot" /\ q = <<>>
            \/ pc = "get_yaw" /\ get_pitch_roll_yaw(Join(q)) = None)
        => /\ pc' = "read_frame"
           /\ previous_yaw' = previous_yaw
           /\ last_update_time' = last_update_time
           /\ presented' = presented
           /\ NothingShownThisCycle(presented)
           /\ frames_read >= 1
           /\ frame.id = frames_read
           /\ raw_image = FrameBytes
      ]_vars

\* C8 witness: after a frame was shown, a later cycle met a line without a
\* yaw and ended without showing its frame
C8_Witness ==
    /\ pc = "read_frame"
    /\ Len(presented) >= 1
    /\ yaw = None
    /\ frame.id = frames_read
    /\ NothingShownThisCycle(presented)

\* C9: the slot never holds more than one line, and what the main thread
\* reads from it is exactly the line the reader wrote last.
C9_SlotHoldsLatestLine ==
    /\ Len(q) <= 1
    /\ (q # <<>> \/ stdout_line # None) => (stdout_line \in Lines /\ Join(q) = stdout_line)
    /\ pc \in {"get_yaw", "calib_read"} => Join(q) \in Lines

\* C9 witness: the main thread is about to read a line that has replaced the
\* line an earlier cycle read (raw 25.0 was accepted, -60.5 is in the slot)
C9_Witness ==
    /\ pc = "get_yaw"
    /\ previous_yaw = <<5, 1>>
    /\ q = <<LineYawNeg>>

\* C10: every surface shown is SCREEN_WIDTH x SCREEN_HEIGHT.
C10_PresentedIsOneSegment ==
    \A i \in 1..Len(presented) : presented[i].size = <<SCREEN_WIDTH, SCREEN_HEIGHT>>

\* C11: a surface that is shown is made from the frame read in the same
\* cycle; the frames shown so far appear in the order they were read, none
\* twice, and the only frame held is the one read last.
C11_PresentedInReadOrder ==
    /\ [](pc \in LoopPcs \ {"read_frame"} => frame.id = frames_read)
    /\ [](\A i \in 1..Len(presented) : \A j \in 1..Len(presented) :
             i < j => presented[i].frame < presented[j].frame)
    /\ [][ presented' # presented
           => /\ Len(presented') = Len(presented) + 1
              /\ SubSeq(presented', 1, Len(presented)) = presented
              /\ presented'[Len(presented')].frame = frames_read
              /\ frames_read' = frames_read ]_vars

\* C11 witness: two frames have been shown, the first and the third one read
C11_Witness ==
    /\ Len(presented) = 2
    /\ presented[1].frame = 1
    /\ presented[2].frame = 3

\* position that follows each setup step when the step succeeds
NextSetupPc(p) ==
    CASE p = "add_screens" -> "start_capture"
      [] p = "start_capture" -> "start_imu"
      [] p = "start_imu" -> "start_thread"
      [] p = "start_thread" -> "calib_time"

\* C12: a setup step whose collaborator is missing or has not started ends the
\* process with status 1; the step is not tried again, and the calibration
\* wait and the main loop are reached only with the capture tool and the
\* sensor driver running.
C12_SetupFailureIsFatal ==
    /\ [](exit_cause = "setup"
            => /\ exit_status = 1
               /\ pc \in {"exit", "done"}
               /\ ~imu_running
               /\ ~reader_started
               /\ frames_read = 0
               /\ presented = <<>>)
    /\ [](pc \in CalibPcs \cup LoopPcs => (capture_running /\ imu_running /\ reader_started))
    /\ [][ (pc \in SetupPcs /\ pc' # pc)
           => \/ pc' = NextSetupPc(pc)
              \/ pc' \in {"exit", "done"} /\ exit_status' # 0 ]_vars

\* C12 witness: the process has ended with status 1 because the sensor driver
\* was missing or not running, after the capture tool had been started
C12_Witness ==
    /\ pc = "done"
    /\ exit_cause = "setup"
    /\ exit_status = 1
    /\ capture_running
    /\ ~imu_running

C14_CaptureStoppedAtExit ==
    (pc = "done" /\ exit_cause \in {"quit", "setup", "uncaught"}) => ~capture_running

\* C15: the calibration wait ends: it goes on to the main loop as soon as it
\* reads a line with a valid yaw from the slot, and at the first test of the
\* clock 10 time-units or more after start_time otherwise; it leads nowhere
\* but to the main loop, and no frame is read before it has ended.
C15_CalibrationWaitEnds ==
    /\ [](pc \in SetupPcs \cup CalibPcs => (frames_read = 0 /\ frame = NoFrame /\ raw_image = 0))
    /\ [][ (pc \in CalibPcs /\ MainStep)
           => /\ pc' \in CalibPcs \cup {"read_frame"}
              /\ (pc = "calib_read" /\ get_pitch_roll_yaw(Join(q)) # None) => pc' = "read_frame"
              /\ (pc = "calib_time" /\ now - start_time >= 10 * TicksPerUnit) => pc' = "read_frame"
              /\ pc' = "read_frame"
                    => \/ pc = "calib_read" /\ get_pitch_roll_yaw(Join(q)) # None
                       \/ pc = "calib_time" /\ now - start_time >= 10 * TicksPerUnit ]_vars
    /\ (pc \in CalibPcs) ~> (pc \notin CalibPcs)

\* C15 witness: the main loop has been entered after the full 10 time-units,
\* with a line without a yaw in the slot and no frame read so far
C15_Witness ==
    /\ pc = "read_frame"
    /\ now - start_time = 10 * TicksPerUnit
    /\ q = <<LineNoise>>
    /\ frames_read = 0

C17_SlotNeverEmptiedAgain ==
    /\ [][ q # <<>> => q' # <<>> ]_vars
    /\ [](stdout_line # None => q # <<>>)
    /\ [](pc \in {"get_yaw", "calib_read"} => (q # <<>> /\ Join(q) # <<>>))

\* C17 witness: the main loop is about to read the slot in its second cycle,
\* after the reader has replaced the line the first cycle had read (raw 25.0)
C17_Witness ==
    /\ pc = "get_yaw"
    /\ frames_read = 2
    /\ yaw = <<5, 1>>
    /\ q = <<LineNoise>>

====
